---- MODULE Spec2Model ----
(***************************************************************************)
(* debbie: an in-memory table with secondary indexes.                      *)
(*                                                                         *)
(* The model follows src/src/selection.rs (Row, Selection),                *)
(* src/src/index.rs (UniqueIndex, DiscreteIndex, BooleanIndex),            *)
(* src/src/table.rs (Table, Query) and the Person / PersonIndexer          *)
(* instantiation of src/src/lib.rs.                                        *)
(*                                                                         *)
(* A croaring Bitmap is a set of u32 values; a HashMap is a function whose *)
(* DOMAIN is its set of keys; Option<Row> is a sequence of length 0 or 1.  *)
(* Storage positions are 0-based as in the source: position p of the Vec   *)
(* is items[p + 1].                                                        *)
(***************************************************************************)
EXTENDS Integers, Sequences, FiniteSets, TLC

\* ------------------------------------------------------------------ bounds

\* Largest number of records a table holds in the model.
MaxLen == 2

\* Width of Row.value. The source holds it in a u32; the model scales the
\* width down so that 2^RowBits is a number TLC can compute.
RowBits == 4

\* Selections handed to the set operators range over subsets of [0, MaxRows).
MaxRows == 3

\* Field values of the records the model inserts (Person, lib.rs:11-17).
Ids == {1, 2}
LastNames == {"Voronov", "Zhuravleva"}
Ages == {0, 20}

Persons == [id : Ids, last_name : LastNames, age : Ages]

\* -------------------------------------------------------------- selection.rs

RowModulus == 2 ^ RowBits

\* Row::from_index: `value as u32` keeps the low bits of the position.
from_index(value) == value % RowModulus

\* Row::as_index: `self.value as usize` widens, never changes the value.
as_index(row) == row

\* Option<Row>
None == << >>
Some(row) == << row >>

\* Selection::empty
empty == {}

\* Mutant of filled: the range taken inclusive of count.
filled_inclusive(count) == 0 .. count

\* Selection::filled: the bitmap collected from the range 0..count.
filled(count) == 0 .. (count - 1)

\* Selection::add / Selection::remove
Selection_add(selection, row) == selection \cup {row}
Selection_remove(selection, row) == selection \ {row}

\* Selection::of_row
of_row(row) == Selection_add(empty, row)

\* Selection::len: the bitmap's cardinality.
len(selection) == Cardinality(selection)

\* Selection::is_empty
is_empty(selection) == selection = {}

Min(S) == CHOOSE x \in S : \A y \in S : x <= y

Max(S) == CHOOSE x \in S : \A y \in S : x >= y

\* Mutant of rows: the values yielded in descending order.
RECURSIVE rows_descending(_)
rows_descending(selection) ==
    IF selection = {} THEN << >>
    ELSE << Max(selection) >> \o rows_descending(selection \ {Max(selection)})

\* Selection::rows: the bitmap's iterator yields its values in ascending order.
RECURSIVE rows(_)
rows(selection) ==
    IF selection = {} THEN << >>
    ELSE << Min(selection) >> \o rows(selection \ {Min(selection)})

\* Mutant of bitand: the rows of rhs are taken out of lhs.
bitand_minus(lhs, rhs) == lhs \ rhs

\* Mutant of bitor: rhs is ignored.
bitor_left(lhs, rhs) == lhs

\* BitAnd / BitOr / BitAndAssign / BitOrAssign
bitand(lhs, rhs) == lhs \cap rhs
bitor(lhs, rhs) == lhs \cup rhs
\* Mutant of bitand_assign: the left operand is left as it is.
bitand_assign_nothing(lhs, rhs) == lhs

bitand_assign(lhs, rhs) == lhs \cap rhs
bitor_assign(lhs, rhs) == lhs \cup rhs

\* ------------------------------------------------------------------ index.rs

\* HashMap::new / insert / remove
EmptyMap == [k \in {} |-> {}]
MapInsert(map, key, value) ==
    [k \in (DOMAIN map) \cup {key} |-> IF k = key THEN value ELSE map[k]]
MapRemove(map, key) == [k \in (DOMAIN map) \ {key} |-> map[k]]

\* The index predicates PersonIndexer::default wires (lib.rs:31-33).
by_id_predicate(person) == person.id
by_last_name_predicate(person) == person.last_name
adults_predicate(person) == person.age >= 18

\* UniqueIndex::get
UniqueIndex_get(index, value) ==
    IF value \in DOMAIN index THEN Some(index[value]) ELSE None

\* Mutant of UniqueIndex_add: a key already held keeps its row.
UniqueIndex_add_keep(index, row, item) ==
    IF by_id_predicate(item) \in DOMAIN index THEN index
    ELSE MapInsert(index, by_id_predicate(item), row)

\* Mutant of UniqueIndex_add: the key is mapped to the row after the one given.
UniqueIndex_add_next(index, row, item) ==
    MapInsert(index, by_id_predicate(item), row + 1)

\* UniqueIndex::add: HashMap::insert overwrites the row of a key already held.
UniqueIndex_add(index, row, item) == MapInsert(index, by_id_predicate(item), row)

\* Mutant of UniqueIndex_remove: the mapping is kept.
UniqueIndex_remove_nothing(index, row, item) == index

\* UniqueIndex::remove: removes the item's key, whatever row it maps to.
UniqueIndex_remove(index, row, item) == MapRemove(index, by_id_predicate(item))

\* Mutant of DiscreteIndex_get: a key without a group, or with an emptied
\* group, gets row 0.
DiscreteIndex_get_row_zero(index, value) ==
    IF value \in DOMAIN index /\ index[value] # {} THEN index[value] ELSE of_row(0)

\* DiscreteIndex::get: the group of the key, or the shared empty selection.
DiscreteIndex_get(index, value) ==
    IF value \in DOMAIN index THEN index[value] ELSE empty

\* Mutant of DiscreteIndex_add: the group of the key becomes the row alone.
DiscreteIndex_add_alone(index, row, item) ==
    MapInsert(index, by_last_name_predicate(item), Selection_add(empty, row))

\* DiscreteIndex::add
DiscreteIndex_add(index, row, item) ==
    LET key == by_last_name_predicate(item)
    IN  IF key \in DOMAIN index
        THEN [index EXCEPT ![key] = Selection_add(@, row)]
        ELSE MapInsert(index, key, Selection_add(empty, row))

\* Mutant of DiscreteIndex_remove: the row stays in its group.
DiscreteIndex_remove_nothing(index, row, item) == index

\* DiscreteIndex::remove: an emptied group stays in the map.
DiscreteIndex_remove(index, row, item) ==
    LET key == by_last_name_predicate(item)
    IN  IF key \in DOMAIN index
        THEN [index EXCEPT ![key] = Selection_remove(@, row)]
        ELSE index

\* BooleanIndex::get
BooleanIndex_get(index) == index

\* Mutant of BooleanIndex_add: the row is added whatever the predicate says.
BooleanIndex_add_always(index, row, item) == Selection_add(index, row)

\* BooleanIndex::add
BooleanIndex_add(index, row, item) ==
    IF adults_predicate(item) THEN Selection_add(index, row) ELSE index

\* Mutant of BooleanIndex_remove: the row stays in the selection.
BooleanIndex_remove_nothing(index, row, item) == index

\* BooleanIndex::remove: unconditional.
BooleanIndex_remove(index, row, item) == Selection_remove(index, row)

\* -------------------------------------------------------------------- lib.rs

\* PersonIndexer::default
PersonIndexer_new ==
    [by_id |-> EmptyMap, by_last_name |-> EmptyMap, adults |-> empty]

\* impl Indexer<Person> for PersonIndexer: add
PersonIndexer_add(ix, row, item) ==
    [by_id        |-> UniqueIndex_add(ix.by_id, row, item),
     by_last_name |-> DiscreteIndex_add(ix.by_last_name, row, item),
     adults       |-> BooleanIndex_add(ix.adults, row, item)]

\* impl Indexer<Person> for PersonIndexer: remove
PersonIndexer_remove(ix, row, item) ==
    [by_id        |-> UniqueIndex_remove(ix.by_id, row, item),
     by_last_name |-> DiscreteIndex_remove(ix.by_last_name, row, item),
     adults       |-> BooleanIndex_remove(ix.adults, row, item)]

\* ------------------------------------------------------------------ table.rs

VARIABLES
    items,      \* Table.items: the Vec of records
    indexer,    \* Table.indexer: the PersonIndexer
    borrow,     \* "none", or the kind of the live Query: "select" / "update"
    selection,  \* Query.selection of the live Query
    inserts,    \* history: number of Table::insert calls made
    applied,    \* history: the most recent call, when it was Query::apply
    toggle,     \* history: two consecutive apply calls that change every
                \* selected age and then change it back
    call,       \* history: the most recent narrowing call and its argument
    wild,       \* history: the live Query was given rows by or / only / only_row
    ub,         \* "no", or the outcome of an access outside the Vec
    operands    \* three Selections and the result of the last operator on them

\* What the table and its Query are made of, and the histories kept of them.
core == << items, indexer, borrow, selection, inserts, applied, toggle >>

\* The histories and values only some specifications follow.
aux == << call, wild, ub, operands >>

vars == << items, indexer, borrow, selection, inserts, applied, toggle,
           call, wild, ub, operands >>

\* The closures handed to Query::apply (Fn(&mut Person)): field assignments as
\* in lib.rs:142 and lib.rs:154, and two closures that read the field they
\* write.
Mutators ==
    [f : {"set_id"}, n : Ids, s : {""}]
        \cup [f : {"set_last_name"}, n : {0}, s : LastNames]
        \cup [f : {"set_age"}, n : Ages, s : {""}]
        \cup [f : {"swap_id", "toggle_age"}, n : {0}, s : {""}]

\* update(&mut item): the closure m run on a record.
Mutate(m, item) ==
    CASE m.f = "set_id" -> [item EXCEPT !.id = m.n]
      [] m.f = "set_last_name" -> [item EXCEPT !.last_name = m.s]
      [] m.f = "set_age" -> [item EXCEPT !.age = m.n]
      [] m.f = "swap_id" -> [item EXCEPT !.id = 3 - @]
      [] m.f = "toggle_age" -> [item EXCEPT !.age = IF @ >= 18 THEN 0 ELSE 20]

\* Table::len
Table_len(t) == Len(t.items)

\* Mutant of Table_insert: the record is put in front of the others.
Table_insert_front(t, item) ==
    LET row == from_index(Len(t.items))
    IN  [items   |-> << item >> \o t.items,
         indexer |-> PersonIndexer_add(t.indexer, row, item)]

\* Table::insert on the table value t = [items, indexer].
Table_insert(t, item) ==
    LET row == from_index(Len(t.items))
    IN  [items   |-> Append(t.items, item),
         indexer |-> PersonIndexer_add(t.indexer, row, item)]

\* Mutant of update_row: the index entries are removed with the record as it
\* is after the mutation.
update_row_remove_new(t, row, m) ==
    LET pos  == as_index(row) + 1
        new  == Mutate(m, t.items[pos])
        ix1  == PersonIndexer_remove(t.indexer, row, new)
        ix2  == PersonIndexer_add(ix1, row, new)
    IN  [items   |-> [t.items EXCEPT ![pos] = new],
         indexer |-> ix2,
         trace   |-> Append(t.trace, row),
         calls   |-> t.calls \o << [op |-> "remove", row |-> row, item |-> new],
                                   [op |-> "update", row |-> row, item |-> new],
                                   [op |-> "add", row |-> row, item |-> new] >>]

\* Mutant of update_row: the index entries of the new value are added before
\* those of the old value are removed.
update_row_add_first(t, row, m) ==
    LET pos  == as_index(row) + 1
        item == t.items[pos]
        new  == Mutate(m, item)
        ix1  == PersonIndexer_add(t.indexer, row, new)
        ix2  == PersonIndexer_remove(ix1, row, item)
    IN  [items   |-> [t.items EXCEPT ![pos] = new],
         indexer |-> ix2,
         trace   |-> Append(t.trace, row),
         calls   |-> t.calls \o << [op |-> "update", row |-> row, item |-> new],
                                   [op |-> "add", row |-> row, item |-> new],
                                   [op |-> "remove", row |-> row, item |-> item] >>]

\* Table::update_row, for a row inside the Vec. The trace field records the
\* call; the calls field records, in the order of the three statements, what
\* the Indexer and the closure are handed.
update_row(t, row, m) ==
    LET pos  == as_index(row) + 1
        item == t.items[pos]
        ix1  == PersonIndexer_remove(t.indexer, row, item)
        new  == Mutate(m, item)
        ix2  == PersonIndexer_add(ix1, row, new)
    IN  [items   |-> [t.items EXCEPT ![pos] = new],
         indexer |-> ix2,
         trace   |-> Append(t.trace, row),
         calls   |-> t.calls \o << [op |-> "remove", row |-> row, item |-> item],
                                   [op |-> "update", row |-> row, item |-> new],
                                   [op |-> "add", row |-> row, item |-> new] >>]

\* The loop of Query::apply over the rows the iterator yields.
RECURSIVE apply_loop(_, _, _)
apply_loop(t, rs, m) ==
    IF rs = << >> THEN t
    ELSE apply_loop(update_row(t, Head(rs), m), Tail(rs), m)

\* Query::apply: `for row in self.selection.rows()`.
Query_apply(t, sel, m) == apply_loop(t, rows(sel), m)

\* Mutant of retrieve_row: the record at position 0 whatever the row.
retrieve_row_zero(its, row) == its[1]

\* Table::retrieve_row, for a row inside the Vec.
retrieve_row(its, row) == its[as_index(row) + 1]

\* Table::retrieve_many
retrieve_many(its, rs) == [i \in 1 .. Len(rs) |-> retrieve_row(its, rs[i])]

\* Query::iter
Query_iter(its, sel) == retrieve_many(its, rows(sel))

\* Query::first: self.iter().next()
Query_first(its, sel) ==
    IF rows(sel) = << >> THEN None ELSE Some(retrieve_row(its, Head(rows(sel))))

\* Query::count
Query_count(sel) == len(sel)

\* Table::select / Table::update: the selection of the new Query.
Table_select(its) == filled(from_index(Len(its)))

NoApply == [m |-> [f |-> "none", n |-> 0, s |-> ""], trace |-> << >>]

\* History of age toggles. phase 1: the last call was an apply that changed
\* the age of every row it selected; phase 2: the call after it, on the same
\* Query, was an apply that changed every selected age again and left every
\* age as it was before the first. adults0 and ages0 are the BooleanIndex
\* and the ages before the first of the two.
NoToggle == [phase |-> 0, adults0 |-> {}, ages0 |-> << >>]

AgesOf(its) == [i \in 1 .. Len(its) |-> its[i].age]

ChangesEveryAge(m, its, sel) ==
    /\ sel # {}
    /\ \A r \in sel : Mutate(m, its[r + 1]).age # its[r + 1].age

ToggleAfter(tg, m, its, its2, adults, sel) ==
    IF tg.phase = 1 /\ ChangesEveryAge(m, its, sel) /\ AgesOf(its2) = tg.ages0
    THEN [tg EXCEPT !.phase = 2]
    ELSE IF ChangesEveryAge(m, its, sel)
         THEN [phase |-> 1, adults0 |-> adults, ages0 |-> AgesOf(its)]
         ELSE NoToggle

NoCall == [op |-> "none", sel |-> {}]
NoOperands == [a |-> {}, b |-> {}, c |-> {}, op |-> "none", out |-> {}]

\* Table::in_memory
InitTable ==
    /\ items = << >>
    /\ indexer = PersonIndexer_new
    /\ borrow = "none"
    /\ selection = empty
    /\ inserts = 0
    /\ applied = NoApply
    /\ toggle = NoToggle

Init ==
    /\ InitTable
    /\ call = NoCall
    /\ wild = FALSE
    /\ ub = "no"
    /\ operands = NoOperands

\* Table::insert takes &mut self: no Query borrows the table.
Insert(item) ==
    /\ borrow = "none"
    /\ Len(items) < MaxLen
    /\ LET t == Table_insert([items |-> items, indexer |-> indexer], item)
       IN  /\ items' = t.items
           /\ indexer' = t.indexer
    /\ inserts' = inserts + 1
    /\ applied' = NoApply
    /\ toggle' = NoToggle
    /\ UNCHANGED << borrow, selection >>

\* Table::select
Select ==
    /\ borrow = "none"
    /\ borrow' = "select"
    /\ selection' = Table_select(items)
    /\ applied' = NoApply
    /\ toggle' = NoToggle
    /\ UNCHANGED << items, indexer, inserts >>

\* Table::update
Update ==
    /\ borrow = "none"
    /\ borrow' = "update"
    /\ selection' = Table_select(items)
    /\ applied' = NoApply
    /\ toggle' = NoToggle
    /\ UNCHANGED << items, indexer, inserts >>

\* The Query goes out of scope and its borrow of the table ends.
Drop ==
    /\ borrow # "none"
    /\ borrow' = "none"
    /\ selection' = empty
    /\ applied' = NoApply
    /\ toggle' = NoToggle
    /\ UNCHANGED << items, indexer, inserts >>

\* The row sets a caller hands to and / or / only: selections over the
\* table's universe [0, len).
ArgSelections == SUBSET (0 .. (Len(items) - 1))

Narrow(sel) ==
    /\ borrow # "none"
    /\ selection' = sel
    /\ applied' = NoApply
    /\ toggle' = NoToggle
    /\ UNCHANGED << items, indexer, borrow, inserts >>

\* Query::and
And(sel) == Narrow(bitand_assign(selection, sel))

\* Query::or
Or(sel) == Narrow(bitor_assign(selection, sel))

\* Query::none
QNone == Narrow(empty)

\* Query::only_row
OnlyRow(row) == Narrow(of_row(row))

\* Query::maybe_only_row
maybe_only_row(maybe_row) ==
    IF maybe_row = None THEN empty ELSE of_row(maybe_row[1])
MaybeOnlyRow(maybe_row) == Narrow(maybe_only_row(maybe_row))

\* Query::only
Only(sel) == Narrow(sel)

\* Query::by_id (lib.rs:58-60)
ById(id) == Narrow(maybe_only_row(UniqueIndex_get(indexer.by_id, id)))

\* Query::by_last_name (lib.rs:62-64)
ByLastName(last_name) ==
    Narrow(bitand_assign(selection, DiscreteIndex_get(indexer.by_last_name, last_name)))

\* Query::adults (lib.rs:66-68)
Adults == Narrow(bitand_assign(selection, BooleanIndex_get(indexer.adults)))

\* Query::apply, on a Query that borrows the table mutably. Every row of the
\* selection is inside the Vec.
Apply(m) ==
    /\ borrow = "update"
    /\ \A r \in selection : as_index(r) < Len(items)
    /\ LET t == Query_apply([items |-> items, indexer |-> indexer, trace |-> << >>, calls |-> << >>],
                            selection, m)
       IN  /\ items' = t.items
           /\ indexer' = t.indexer
           /\ applied' = [m |-> m, trace |-> t.trace]
           /\ toggle' = ToggleAfter(toggle, m, items, t.items, indexer.adults, selection)
    /\ UNCHANGED << borrow, selection, inserts >>

Next ==
    \/ \E item \in Persons : Insert(item) /\ UNCHANGED aux
    \/ Select /\ UNCHANGED aux
    \/ Update /\ UNCHANGED aux
    \/ Drop /\ UNCHANGED aux
    \/ \E sel \in ArgSelections : And(sel) /\ UNCHANGED aux
    \/ \E sel \in ArgSelections : Or(sel) /\ UNCHANGED aux
    \/ QNone /\ UNCHANGED aux
    \/ \E row \in 0 .. (Len(items) - 1) : OnlyRow(row) /\ UNCHANGED aux
    \/ \E row \in 0 .. (Len(items) - 1) : MaybeOnlyRow(Some(row)) /\ UNCHANGED aux
    \/ MaybeOnlyRow(None) /\ UNCHANGED aux
    \/ \E sel \in ArgSelections : Only(sel) /\ UNCHANGED aux
    \/ \E id \in Ids : ById(id) /\ UNCHANGED aux
    \/ \E last_name \in LastNames : ByLastName(last_name) /\ UNCHANGED aux
    \/ Adults /\ UNCHANGED aux
    \/ \E m \in Mutators : Apply(m) /\ UNCHANGED aux

Spec == Init /\ [][Next]_vars

\* -------------------------------------------------------------------- claims

Positions == 0 .. (Len(items) - 1)

\* The record at storage position r.
ItemAt(r) == items[r + 1]

\* An index that started empty and received add(r, items[r]) once for each
\* row r of 0 .. len-1.
RECURSIVE Rebuilt(_, _)
Rebuilt(its, n) ==
    IF n = 0 THEN PersonIndexer_new
    ELSE PersonIndexer_add(Rebuilt(its, n - 1), n - 1, its[n])

SameAnswers(ix, jx) ==
    /\ \A k \in Ids : UniqueIndex_get(ix.by_id, k) = UniqueIndex_get(jx.by_id, k)
    /\ \A k \in LastNames :
          DiscreteIndex_get(ix.by_last_name, k) = DiscreteIndex_get(jx.by_last_name, k)
    /\ BooleanIndex_get(ix.adults) = BooleanIndex_get(jx.adults)

\* C1: after any sequence of insert and apply calls, every index of the
\* PersonIndexer answers every lookup as an index rebuilt from the current
\* records would. Stated as the claim states it; the UniqueIndex breaks it
\* when two records hold the same id.
C1_IndexesAsRebuilt == SameAnswers(indexer, Rebuilt(items, Len(items)))

\* C2: from every reachable table, for every in-bounds row and every mutator,
\* right after update_row the row is found under its new keys (UniqueIndex,
\* DiscreteIndex), is in the BooleanIndex exactly when the predicate holds on
\* the new record, and is not found under an old key that differs.
C2_UpdateRowReindexes ==
    \A row \in Positions : \A m \in Mutators :
        LET old == ItemAt(row)
            t   == update_row([items |-> items, indexer |-> indexer, trace |-> << >>, calls |-> << >>],
                              row, m)
            new == t.items[row + 1]
            ix  == t.indexer
        IN  /\ new = Mutate(m, old)
            /\ UniqueIndex_get(ix.by_id, new.id) = Some(row)
            /\ row \in DiscreteIndex_get(ix.by_last_name, new.last_name)
            /\ (row \in BooleanIndex_get(ix.adults)) <=> (new.age >= 18)
            /\ old.id # new.id => UniqueIndex_get(ix.by_id, old.id) # Some(row)
            /\ old.last_name # new.last_name =>
                   row \notin DiscreteIndex_get(ix.by_last_name, old.last_name)

\* C2 witness: an apply has renamed the one record of a group, whose group is
\* now empty, and given a record another id.
C2_Witness ==
    /\ applied.m.f = "set_last_name"
    /\ applied.trace # << >>
    /\ \E k \in DOMAIN indexer.by_last_name : indexer.by_last_name[k] = {}
    /\ \E k \in Ids : k \notin DOMAIN indexer.by_id

\* C3: for every key, the DiscreteIndex returns exactly the rows whose
\* current record holds that key.
C3_DiscreteExact ==
    \A k \in LastNames :
        DiscreteIndex_get(indexer.by_last_name, k)
            = {r \in Positions : ItemAt(r).last_name = k}

\* C3 witness: two records shared a key and an apply has renamed one of them.
C3_Witness ==
    /\ Len(items) = 2
    /\ applied.m.f = "set_last_name"
    /\ Len(applied.trace) = 1
    /\ ItemAt(0).last_name # ItemAt(1).last_name
    /\ \A k \in LastNames : Cardinality(DiscreteIndex_get(indexer.by_last_name, k)) = 1

\* C4: the BooleanIndex returns exactly the rows whose current record
\* satisfies the predicate.
C4_BooleanExact ==
    BooleanIndex_get(indexer.adults) = {r \in Positions : ItemAt(r).age >= 18}

\* C4 witness: an apply has set the age of a record and every row is an adult.
C4_Witness ==
    /\ Len(items) = 2
    /\ applied.m = [f |-> "set_age", n |-> 20, s |-> ""]
    /\ Len(applied.trace) = 1
    /\ BooleanIndex_get(indexer.adults) = {0, 1}

\* C5: when exactly one row holds unique key k, the UniqueIndex returns that
\* row and the selection narrowed by k has that record first. Stated as the
\* claim states it; UniqueIndex::remove breaks it.
C5_SoleHolderFound ==
    \A k \in Ids : \A r \in Positions :
        ({x \in Positions : ItemAt(x).id = k} = {r}) =>
            /\ UniqueIndex_get(indexer.by_id, k) = Some(r)
            /\ Query_first(items, maybe_only_row(UniqueIndex_get(indexer.by_id, k)))
                   = Some(ItemAt(r))

InsertStep == inserts' = inserts + 1
ApplyStep == applied' # NoApply

\* C6: an insert whose unique key is already mapped overwrites the mapping
\* with the row just assigned, and leaves the mapping of every other key as
\* it was.
C6_InsertOverwrites ==
    [][InsertStep =>
          LET item == items'[Len(items')]
              row  == Len(items)
          IN  /\ Len(items') = Len(items) + 1
              /\ UniqueIndex_get(indexer'.by_id, item.id) = Some(row)
              /\ \A k \in Ids \ {item.id} :
                     UniqueIndex_get(indexer'.by_id, k) = UniqueIndex_get(indexer.by_id, k)
      ]_vars

\* C6 witness: two inserts with the same id, no update since; the key maps to
\* the second row.
C6_Witness ==
    /\ inserts = 2
    /\ Len(items) = 2
    /\ ItemAt(0) = ItemAt(1)
    /\ DOMAIN indexer.by_id = {ItemAt(0).id}
    /\ UniqueIndex_get(indexer.by_id, ItemAt(1).id) = Some(1)
    /\ indexer.by_last_name[ItemAt(0).last_name] = {0, 1}

\* C7: the k-th insert stores its record at position k and indexes it under
\* row k; len is the number of inserts; an apply keeps len and leaves at every
\* position the record that was there, mutated or not.
C7_RowStability ==
    [][/\ Len(items') = inserts'
       /\ InsertStep =>
             LET item == items'[Len(items')]
                 k    == inserts
             IN  /\ items' = Append(items, item)
                 /\ UniqueIndex_get(indexer'.by_id, item.id) = Some(k)
                 /\ k \in DiscreteIndex_get(indexer'.by_last_name, item.last_name)
                 /\ (k \in BooleanIndex_get(indexer'.adults)) <=> (item.age >= 18)
       /\ (~InsertStep /\ ~ApplyStep) => items' = items
       /\ ApplyStep =>
             /\ Len(items') = Len(items)
             /\ \A p \in 1 .. Len(items) :
                    items'[p] \in {items[p], Mutate(applied'.m, items[p])}
      ]_vars

\* C7 witness: two inserts, then an apply that mutated the first record only.
C7_Witness ==
    /\ inserts = 2
    /\ Len(items) = 2
    /\ applied.trace = << 0 >>
    /\ applied.m.f = "swap_id"

\* C8: a new Query from select() or update() selects exactly 0 .. len-1, and
\* its count is len.
C8_FullSelection ==
    [][(borrow = "none" /\ borrow' # "none") =>
          /\ selection' = 0 .. (Len(items') - 1)
          /\ Query_count(selection') = Len(items')
      ]_vars

\* C8 witness: a select() on a table of two records.
C8_Witness ==
    /\ borrow = "select"
    /\ Len(items) = 2
    /\ Query_count(selection) = 2

\* C9: two apply calls in a row, the first changing the age of every selected
\* record and the second changing it back, leave the BooleanIndex as it was
\* before the first.
C9_ToggleRestoresBoolean ==
    toggle.phase = 2 => BooleanIndex_get(indexer.adults) = toggle.adults0

\* C9 witness: a toggle there and back over rows of which one was an adult
\* and one was not.
C9_Witness ==
    /\ toggle.phase = 2
    /\ Len(applied.trace) = 2
    /\ toggle.adults0 = {1}

IsAscending(seq) == \A i \in 1 .. (Len(seq) - 1) : seq[i] < seq[i + 1]
Range(seq) == {seq[i] : i \in 1 .. Len(seq)}

\* C10: apply calls update_row once for each row of the selection it started
\* with, in ascending order, and for no other row; the selection is not
\* changed by the apply; each visited record is the mutator applied once to
\* its previous value and every other record is as it was.
C10_ApplyVisitsSelectionOnce ==
    [][ApplyStep =>
          /\ Range(applied'.trace) = selection
          /\ Len(applied'.trace) = Cardinality(selection)
          /\ IsAscending(applied'.trace)
          /\ selection' = selection
          /\ Len(items') = Len(items)
          /\ \A r \in Positions :
                 items'[r + 1] = IF r \in selection
                                 THEN Mutate(applied'.m, items[r + 1])
                                 ELSE items[r + 1]
      ]_vars

\* C10 witness: an apply over the two rows of a group gave both another key,
\* so the group the selection was narrowed by is empty now, and both rows were
\* visited.
C10_Witness ==
    /\ applied.m.f = "set_last_name"
    /\ applied.trace = << 0, 1 >>
    /\ selection = {0, 1}
    /\ \E k \in DOMAIN indexer.by_last_name : indexer.by_last_name[k] = {}

\* ------------------------------------------------- the Selection operators

\* Any three Selections over [0, MaxRows); no table is involved.
InitSelection ==
    /\ InitTable
    /\ call = NoCall
    /\ wild = FALSE
    /\ ub = "no"
    /\ \E a \in SUBSET (0 .. (MaxRows - 1)) :
       \E b \in SUBSET (0 .. (MaxRows - 1)) :
       \E c \in SUBSET (0 .. (MaxRows - 1)) :
           operands = [a |-> a, b |-> b, c |-> c, op |-> "none", out |-> {}]

\* &a & &b
SelBitAnd ==
    /\ operands' = [operands EXCEPT !.op = "bitand",
                                    !.out = bitand(operands.a, operands.b)]
    /\ UNCHANGED << core, call, wild, ub >>

\* &a | &b
SelBitOr ==
    /\ operands' = [operands EXCEPT !.op = "bitor",
                                    !.out = bitor(operands.a, operands.b)]
    /\ UNCHANGED << core, call, wild, ub >>

\* a &= &b
SelBitAndAssign ==
    /\ operands' = [operands EXCEPT !.op = "bitand_assign",
                                    !.a = bitand_assign(operands.a, operands.b)]
    /\ UNCHANGED << core, call, wild, ub >>

\* a |= &c
SelBitOrAssign ==
    /\ operands' = [operands EXCEPT !.op = "bitor_assign",
                                    !.a = bitor_assign(operands.a, operands.c)]
    /\ UNCHANGED << core, call, wild, ub >>

NextSelection ==
    \/ SelBitAnd
    \/ SelBitOr
    \/ SelBitAndAssign
    \/ SelBitOrAssign

SpecSelection == InitSelection /\ [][NextSelection]_vars

Smaller(x, y) == IF x <= y THEN x ELSE y

SelectionLaws ==
    LET A == operands.a
        B == operands.b
    IN  /\ bitand(A, B) = bitand(B, A)
        /\ bitor(A, empty) = A
        /\ bitand(A, filled(MaxRows)) = A
        /\ len(bitand(A, B)) <= Smaller(len(A), len(B))

\* C11: for all Selections A, B over [0, n): A & B = B & A, A | empty = A,
\* A & filled(n) = A, and (A & B).len() <= min(A.len(), B.len()); a &= b
\* and a |= c leave a equal to the result of a & b and of a | c.
C11_SelectionLaws ==
    /\ [] SelectionLaws
    /\ [][/\ operands'.op = "bitand_assign" => operands'.a = bitand(operands.a, operands.b)
          /\ operands'.op = "bitor_assign" => operands'.a = bitor(operands.a, operands.c)
         ]_vars

\* C11 witness: a &= b has taken rows out of a, which neither contains b nor
\* is contained in it.
C11_Witness ==
    /\ operands.op = "bitand_assign"
    /\ operands.a = {1}
    /\ operands.b = {1, 2}
    /\ operands.out = {0, 1, 2}

Commutative ==
    /\ bitand(operands.a, operands.b) = bitand(operands.b, operands.a)
    /\ bitor(operands.a, operands.b) = bitor(operands.b, operands.a)

Associative ==
    /\ bitand(bitand(operands.a, operands.b), operands.c)
           = bitand(operands.a, bitand(operands.b, operands.c))
    /\ bitor(bitor(operands.a, operands.b), operands.c)
           = bitor(operands.a, bitor(operands.b, operands.c))

\* C15 as stated: intersection and union are commutative and associative,
\* the empty set is an identity for intersection and the full set is an
\* identity for union.
C15_AsStated ==
    /\ Commutative
    /\ Associative
    /\ bitand(operands.a, empty) = operands.a
    /\ bitor(operands.a, filled(MaxRows)) = operands.a

\* C15 amended: intersection and union are commutative and associative, the
\* empty set is an identity for union and the full set filled(n) is an
\* identity for intersection of Selections over [0, n).
C15_Amended ==
    /\ Commutative
    /\ Associative
    /\ bitor(operands.a, empty) = operands.a
    /\ bitand(operands.a, filled(MaxRows)) = operands.a

\* C15 witness: a | b was computed on three different Selections, none of
\* them empty or full.
C15_Witness ==
    /\ operands.op = "bitor"
    /\ operands.a = {0}
    /\ operands.b = {1, 2}
    /\ operands.c = {0, 2}
    /\ operands.out = {0, 1, 2}

\* ------------------------------------------------- the narrowing calls

\* Selections a caller can build without the table: any rows of [0, MaxRows).
AnySelections == SUBSET (0 .. (MaxRows - 1))

Called(op, sel) == call' = [op |-> op, sel |-> sel]

\* Inserts, new Queries and every narrowing call of table.rs:46-76 with any
\* argument, each call recorded with its argument. No record is read.
NextQuery ==
    \/ \E item \in Persons : Insert(item) /\ call' = NoCall /\ UNCHANGED << wild, ub, operands >>
    \/ Select /\ call' = NoCall /\ UNCHANGED << wild, ub, operands >>
    \/ Update /\ call' = NoCall /\ UNCHANGED << wild, ub, operands >>
    \/ Drop /\ call' = NoCall /\ UNCHANGED << wild, ub, operands >>
    \/ \E sel \in AnySelections :
           And(sel) /\ Called("and", sel) /\ UNCHANGED << wild, ub, operands >>
    \/ \E sel \in AnySelections :
           Or(sel) /\ Called("or", sel) /\ UNCHANGED << wild, ub, operands >>
    \/ QNone /\ Called("none", {}) /\ UNCHANGED << wild, ub, operands >>
    \/ \E row \in 0 .. (MaxRows - 1) :
           OnlyRow(row) /\ Called("only_row", {row}) /\ UNCHANGED << wild, ub, operands >>
    \/ \E row \in 0 .. (MaxRows - 1) :
           MaybeOnlyRow(Some(row)) /\ Called("maybe_only_row_some", {row})
               /\ UNCHANGED << wild, ub, operands >>
    \/ MaybeOnlyRow(None) /\ Called("maybe_only_row_none", {})
           /\ UNCHANGED << wild, ub, operands >>
    \/ \E sel \in AnySelections :
           Only(sel) /\ Called("only", sel) /\ UNCHANGED << wild, ub, operands >>

SpecQuery == Init /\ [][NextQuery]_vars

NthRow(sel, i) == CHOOSE r \in sel : Cardinality({x \in sel : x < r}) = i

\* C13: for a Query whose selection holds only rows below len, iter() and
\* collect() yield one record per selected row, the table's current record
\* at that row, in ascending row order, count() records in all; first() is
\* the record at the smallest selected row, and None exactly when the
\* selection is empty.
C13_IterYieldsSelected ==
    (borrow # "none" /\ selection \subseteq Positions) =>
        LET out   == Query_iter(items, selection)
            first == Query_first(items, selection)
        IN  /\ Len(out) = Query_count(selection)
            /\ Len(out) = Cardinality(selection)
            /\ \A i \in 1 .. Len(out) : out[i] = ItemAt(NthRow(selection, i - 1))
            /\ (first = None) <=> (selection = {})
            /\ selection # {} => first = Some(ItemAt(Min(selection)))

\* C13 witness: a Query over both rows of a table whose two records differ.
C13_Witness ==
    /\ borrow = "select"
    /\ selection = {0, 1}
    /\ Len(items) = 2
    /\ items[1] # items[2]

\* ------------------------------------------------- index misses

\* Keys no record of the model ever holds.
AbsentId == Max(Ids) + 1
AbsentLastName == "Smith"

HoldsId(k) == \E r \in Positions : ItemAt(r).id = k
HoldsLastName(k) == \E r \in Positions : ItemAt(r).last_name = k

\* C14: for a key no row holds, UniqueIndex.get is None and DiscreteIndex.get
\* has cardinality 0; a group emptied by updates gives the same members,
\* cardinality and is_empty as the group of a key that was never inserted.
C14_MissesAreEmpty ==
    /\ \A k \in Ids \cup {AbsentId} :
           ~HoldsId(k) => UniqueIndex_get(indexer.by_id, k) = None
    /\ \A k \in LastNames \cup {AbsentLastName} :
           ~HoldsLastName(k) => len(DiscreteIndex_get(indexer.by_last_name, k)) = 0
    /\ AbsentLastName \notin DOMAIN indexer.by_last_name
    /\ \A k \in DOMAIN indexer.by_last_name :
           indexer.by_last_name[k] = {} =>
               LET emptied == DiscreteIndex_get(indexer.by_last_name, k)
                   never   == DiscreteIndex_get(indexer.by_last_name, AbsentLastName)
               IN  /\ rows(emptied) = rows(never)
                   /\ \A r \in 0 .. MaxLen : (r \in emptied) <=> (r \in never)
                   /\ len(emptied) = len(never)
                   /\ is_empty(emptied) = is_empty(never)
                   /\ is_empty(emptied)

\* C14 witness: updates have emptied the group of a key and taken an id out
\* of the UniqueIndex.
C14_Witness ==
    /\ Len(items) = 2
    /\ applied.trace # << >>
    /\ \E k \in DOMAIN indexer.by_last_name :
           indexer.by_last_name[k] = {} /\ ~HoldsLastName(k)
    /\ \E k \in Ids : ~HoldsId(k) /\ UniqueIndex_get(indexer.by_id, k) = None

\* ------------------------------------------------- the update protocol

\* C16: update_row(row, m), for every row an updating Query selects, makes
\* three calls, once each and in this order: the composite remove with the
\* row and the record as it was, m on the record, the composite add with the
\* row and the record as m left it; every member index receives the remove
\* and the add with that row and record.
C16_UpdateProtocol ==
    \A row \in (IF borrow = "update" THEN selection ELSE {}) : \A m \in Mutators :
        LET old == ItemAt(row)
            new == Mutate(m, old)
            t   == update_row([items |-> items, indexer |-> indexer, trace |-> << >>, calls |-> << >>],
                              row, m)
        IN  /\ t.calls = << [op |-> "remove", row |-> row, item |-> old],
                            [op |-> "update", row |-> row, item |-> new],
                            [op |-> "add", row |-> row, item |-> new] >>
            /\ t.items[row + 1] = new
            /\ t.indexer.by_id
                   = UniqueIndex_add(UniqueIndex_remove(indexer.by_id, row, old), row, new)
            /\ t.indexer.by_last_name
                   = DiscreteIndex_add(DiscreteIndex_remove(indexer.by_last_name, row, old),
                                       row, new)
            /\ t.indexer.adults
                   = BooleanIndex_add(BooleanIndex_remove(indexer.adults, row, old), row, new)

\* C16 witness: an apply has run update_row on row 0 of two, and a mutator
\* that leaves row 0 under the key it already has can be applied next.
C16_Witness ==
    /\ Len(items) = 2
    /\ applied.trace = << 0 >>
    /\ applied.m.f = "set_age"
    /\ borrow = "update"
    /\ selection = {0}
    /\ \E m \in Mutators : Mutate(m, ItemAt(0)) = ItemAt(0)

\* ------------------------------------------------- soundness and frame

\* C18: every mapping k -> r of the UniqueIndex has r below len and the
\* record at r holds k; no row is the value of two keys.
C18_UniqueSound ==
    LET index == indexer.by_id
    IN  /\ \A k \in DOMAIN index :
               /\ as_index(index[k]) < Len(items)
               /\ by_id_predicate(ItemAt(as_index(index[k]))) = k
        /\ \A k1 \in DOMAIN index : \A k2 \in DOMAIN index :
               index[k1] = index[k2] => k1 = k2

\* C18 witness: an apply has given both ids away and taken one back: the
\* index holds one mapping for two rows with different ids.
C18_Witness ==
    /\ Len(items) = 2
    /\ applied.m.f = "swap_id"
    /\ applied.trace = << 0, 1 >>
    /\ ItemAt(0).id # ItemAt(1).id
    /\ Cardinality(DOMAIN indexer.by_id) = 1

\* C19: update_row(r, m), for every row r an updating Query selects, leaves
\* len as it is, leaves the record at every other position as it is, and for
\* every other row leaves as it is whether the row is in each DiscreteIndex
\* group and in the BooleanIndex set.
C19_UpdateFrame ==
    \A row \in (IF borrow = "update" THEN selection ELSE {}) : \A m \in Mutators :
        LET t == update_row([items |-> items, indexer |-> indexer, trace |-> << >>, calls |-> << >>],
                            row, m)
        IN  /\ Table_len(t) = Len(items)
            /\ \A r \in Positions : r # row => t.items[r + 1] = ItemAt(r)
            /\ \A r \in (0 .. MaxLen) \ {row} :
                   /\ \A k \in LastNames \cup {AbsentLastName} :
                          (r \in DiscreteIndex_get(t.indexer.by_last_name, k))
                              <=> (r \in DiscreteIndex_get(indexer.by_last_name, k))
                   /\ (r \in BooleanIndex_get(t.indexer.adults))
                          <=> (r \in BooleanIndex_get(indexer.adults))

\* C19 witness: two rows share a group and the BooleanIndex set, and an
\* update of one of them is about to run.
C19_Witness ==
    /\ Len(items) = 2
    /\ borrow = "update"
    /\ selection = {1}
    /\ \E k \in LastNames : DiscreteIndex_get(indexer.by_last_name, k) = {0, 1}
    /\ BooleanIndex_get(indexer.adults) = {0, 1}

\* ------------------------------------------------- rows outside the table

\* Selections and rows a caller can hand to or / only / only_row: safe code
\* builds them without the table (Selection::filled, Selection::of_row), so
\* they may hold rows at and past len.
WildSelections == SUBSET (0 .. MaxLen)
WildRows == 0 .. MaxLen

InBounds(sel) == \A r \in sel : as_index(r) < Len(items)

\* The rows of sel inside the Vec, and the first one outside it.
Inside(sel) == {r \in sel : as_index(r) < Len(items)}
FirstOutside(sel) == Min(sel \ Inside(sel))

\* After undefined behaviour nothing more is modelled.
Clean == ub = "no" /\ wild' = FALSE /\ UNCHANGED << call, ub, operands >>
Taint == ub = "no" /\ wild' = TRUE /\ UNCHANGED << call, ub, operands >>
Keep == ub = "no" /\ UNCHANGED << call, wild, ub, operands >>

\* Query::iter / collect / first. retrieve_row reads with get_unchecked
\* (table.rs:185-187): a row outside the Vec is undefined behaviour, here a
\* choice between the process dying and a read of whatever lies there.
ReadWild ==
    /\ ub = "no"
    /\ borrow # "none"
    /\ IF InBounds(selection)
       THEN ub' = ub
       ELSE ub' \in {"abort", "garbage"}
    /\ UNCHANGED << core, call, wild, operands >>

\* Query::apply. update_row writes with get_unchecked_mut (table.rs:178-183).
\* rows() is ascending, so the rows inside the Vec are updated first; at the
\* first row outside it the behaviour is undefined: the process dies, or
\* what lies there is taken for a record, removed from and added to the
\* indexes under that row, and the write lands outside the Vec.
ApplyWild(m) ==
    IF InBounds(selection)
    THEN Apply(m) /\ Keep
    ELSE /\ ub = "no"
         /\ borrow = "update"
         /\ LET t   == Query_apply([items |-> items, indexer |-> indexer, trace |-> << >>, calls |-> << >>],
                                   Inside(selection), m)
                row == FirstOutside(selection)
            IN  /\ items' = t.items
                /\ applied' = [m |-> m, trace |-> t.trace]
                /\ toggle' = NoToggle
                /\ \/ ub' = "abort" /\ indexer' = t.indexer
                   \/ /\ ub' = "corrupt"
                      /\ \E garbage \in Persons :
                             indexer' = PersonIndexer_add(
                                            PersonIndexer_remove(t.indexer, row, garbage),
                                            row, Mutate(m, garbage))
         /\ UNCHANGED << borrow, selection, inserts, call, wild, operands >>

\* Every call of the table and of a Query, with arguments that may hold rows
\* outside the table. wild records that the Query was narrowed by a call
\* other than and / by_id / by_last_name / adults.
NextWild ==
    \/ \E item \in Persons : Insert(item) /\ Clean
    \/ Select /\ Clean
    \/ Update /\ Clean
    \/ Drop /\ Clean
    \/ \E sel \in WildSelections : And(sel) /\ Keep
    \/ \E sel \in WildSelections : Or(sel) /\ Taint
    \/ QNone /\ Taint
    \/ \E row \in WildRows : OnlyRow(row) /\ Taint
    \/ \E row \in WildRows : MaybeOnlyRow(Some(row)) /\ Taint
    \/ MaybeOnlyRow(None) /\ Taint
    \/ \E sel \in WildSelections : Only(sel) /\ Taint
    \/ \E id \in Ids : ById(id) /\ Keep
    \/ \E last_name \in LastNames : ByLastName(last_name) /\ Keep
    \/ Adults /\ Keep
    \/ ReadWild
    \/ \E m \in Mutators : ApplyWild(m)

SpecWild == Init /\ [][NextWild]_vars

\* Every row held by an index.
IndexedRows ==
    {indexer.by_id[k] : k \in DOMAIN indexer.by_id}
        \cup UNION {indexer.by_last_name[k] : k \in DOMAIN indexer.by_last_name}
        \cup indexer.adults

\* C17: as long as no call has left the table (no undefined behaviour yet),
\* every row held by the UniqueIndex, by a DiscreteIndex group or by the
\* BooleanIndex, and every row of the selection select() / update() start
\* with, is below len; so a Query narrowed only with and(), by_last_name,
\* adults or by_id selects rows below len only, and no read or update
\* outside the Vec comes from such a Query.
C17_RowsBelowLen ==
    /\ [](ub = "no" =>
             /\ \A r \in IndexedRows : as_index(r) < Len(items)
             /\ \A r \in Table_select(items) : as_index(r) < Len(items)
             /\ (borrow # "none" /\ ~wild) => InBounds(selection))
    /\ [][ub' # "no" => wild]_vars

\* C17 witness: after an apply, an updating Query narrowed with by_id alone
\* selects the second of two rows, while both rows are indexed.
C17_Witness ==
    /\ ub = "no"
    /\ ~wild
    /\ borrow = "update"
    /\ Len(items) = 2
    /\ applied.trace = << 1 >>
    /\ selection = {1}
    /\ IndexedRows = {0, 1}

\* ------------------------------------------------- tables longer than a Row is wide

\* One position more than Row.value can tell apart.
WrapLen == RowModulus + 1

\* The record every insert of the long table stores.
WrapPersons == {[id |-> 1, last_name |-> "Voronov", age |-> 20]}

\* Table::insert, on a table that may grow to WrapLen records.
InsertWrap(item) ==
    /\ borrow = "none"
    /\ Len(items) < WrapLen
    /\ LET t == Table_insert([items |-> items, indexer |-> indexer], item)
       IN  /\ items' = t.items
           /\ indexer' = t.indexer
    /\ inserts' = inserts + 1
    /\ applied' = NoApply
    /\ toggle' = NoToggle
    /\ UNCHANGED << borrow, selection >>

\* Inserts up to WrapLen records, new Queries and their narrowing by the
\* indexes; no record is updated.
NextWrap ==
    \/ \E item \in WrapPersons : InsertWrap(item) /\ UNCHANGED aux
    \/ Select /\ UNCHANGED aux
    \/ Update /\ UNCHANGED aux
    \/ Drop /\ UNCHANGED aux
    \/ QNone /\ UNCHANGED aux
    \/ \E row \in Positions : OnlyRow(from_index(row)) /\ UNCHANGED aux
    \/ \E id \in Ids : ById(id) /\ UNCHANGED aux
    \/ \E last_name \in LastNames : ByLastName(last_name) /\ UNCHANGED aux
    \/ Adults /\ UNCHANGED aux

SpecWrap == Init /\ [][NextWrap]_vars

\* C20: for every position n of the table, Row::from_index(n).as_index() is
\* n: two different positions never get the same row, and select() covers
\* every stored record.
C20_RowsNeverReused ==
    /\ \A n \in Positions : as_index(from_index(n)) = n
    /\ \A n1 \in Positions : \A n2 \in Positions :
           n1 # n2 => from_index(n1) # from_index(n2)
    /\ Table_select(items) = Positions

\* The table has one record more than Row.value can tell apart, and the
\* UniqueIndex sends the key of all of them to row 0.
C20_Wrapped ==
    /\ Len(items) = WrapLen
    /\ UniqueIndex_get(indexer.by_id, 1) = Some(0)

====
